---- MODULE Spec2Model ----
(***************************************************************************)
(* BeardedVibes: the Express server (server.js), its data-access module    *)
(* (database.js) and its storage abstraction (storage.js), modelled as a   *)
(* state machine.  One action is one HTTP request handled from the global  *)
(* authOptional middleware to the response; `resp` is the response of the  *)
(* last request together with what the request did on the way.             *)
(***************************************************************************)
EXTENDS Integers, Sequences, FiniteSets, TLC

\* ------------------------------------------------------------------ bounds
MaxPosts == 2          \* posts rows ever inserted
MaxFiles == 3          \* files multer ever writes to the uploads directory
MaxLikedPosts == 1     \* posts rows inserted where likes and follows are explored
MaxComments == 1       \* comments rows per post and user
MaxInflight == 2       \* handlers in flight at the same time
MaxTime == 3           \* seconds the clock of the history table runs
MaxUrlLen == 4         \* pieces of a stored avatar URL

\* ------------------------------------------------------- program constants
TitleMax == 200        \* .slice(0, 200)
DescriptionMax == 2000 \* .slice(0, 2000)
SearchLimit == 50      \* LIMIT 50
TrendingLimit == 100   \* LIMIT 100
MinQueryLen == 2       \* query.trim().length < 2
CommentMax == 800      \* .slice(0, 800)

\* -------------------------------------------------------------- identities
\* External identities (Discord ids) the OAuth provider can assert.
Discord == {"d1", "d2"}
\* ADMIN_IDS of the environment.
adminIds == {"d1"}
\* Browsers: one per identity, and one that never logs in.
Anon == "anon"
Clients == Discord \cup {Anon}
\* users.id is SERIAL / AUTOINCREMENT.
UserIds == 1..Cardinality(Discord)
PostIds == 1..MaxPosts

None == "none"
NoCookie == [id |-> 0, discordId |-> None, isAdmin |-> FALSE, isBanned |-> FALSE,
             avatar |-> <<>>]
\* crypto.randomBytes(24).toString('hex'): a secret no earlier post was given,
\* here the number of the upload that drew it; 0 stands for no token at all.
NoToken == 0
Tokens == 1..MaxPosts
randomBytes(P) == Cardinality({p \in PostIds : P[p].type # None}) + 1

\* -------------------------------------------------------------------- text
\* A string is a sequence of one-character strings.
Lower(c) == IF c = "A" THEN "a" ELSE c

LowerText(s) == [i \in 1..Len(s) |-> Lower(s[i])]

RECURSIVE TrimLeft(_)
TrimLeft(s) == IF s # <<>> /\ Head(s) = " " THEN TrimLeft(Tail(s)) ELSE s

RECURSIVE TrimRight(_)
TrimRight(s) ==
    IF s # <<>> /\ s[Len(s)] = " " THEN TrimRight(SubSeq(s, 1, Len(s) - 1)) ELSE s

\* String.prototype.trim
Trim(s) == TrimRight(TrimLeft(s))

\* String.prototype.slice(0, n)
Slice(s, n) == SubSeq(s, 1, IF Len(s) < n THEN Len(s) ELSE n)

\* SQL: LOWER(hay) LIKE LOWER('%' || needle || '%')
Like(hay, needle) ==
    \E i \in 0..(Len(hay) - Len(needle)) :
        SubSeq(LowerText(hay), i + 1, i + Len(needle)) = LowerText(needle)

\* The username the provider reports for an identity.
UserName(d) == <<"u", d>>

\* ------------------------------------------------------------------- state
VARIABLES
    users,        \* users table, by discordId: [id, isAdmin, isBanned]; id 0 = no row
    cookie,       \* the session cookie of each browser (the decoded JWT)
    posts,        \* posts table, by id; status "none" = no row
    likes,        \* likes table: number of rows per <<postId, userId>>
    watchlist,    \* watchlist table: number of rows per <<postId, userId>>
    follows,      \* follows table: number of rows per <<followerId, followingDiscordId>>
    comments,     \* comments table: number of rows per <<postId, userId>>
    history,      \* history table: viewedAt per <<postId, userId>>; 0 = no row
    dbType,       \* "postgres" or "sqlite" (DATABASE_URL chooses at start)
    pending,      \* requests whose handler is between two awaits
    disk,         \* files in the uploads directory
    nextFile,     \* files multer has written so far, plus one
    storageType,  \* "local" or "cloudinary" (the environment chooses at start)
    resp,         \* the last request: its response and its effects
    prev          \* the request before it and the relations it started from

store == <<users, posts, likes, watchlist, follows, comments, history>>
files == <<disk, nextFile, storageType>>
vars == <<users, cookie, posts, likes, watchlist, follows, comments, history,
          dbType, pending, disk, nextFile,
          storageType, resp, prev>>

NoUser == [id |-> 0, isAdmin |-> FALSE, isBanned |-> FALSE, avatar |-> <<>>]
NoPost == [status |-> "none", uploaderDiscordId |-> None, uploaderName |-> <<>>,
           editToken |-> NoToken, title |-> <<>>, description |-> <<>>,
           type |-> None, format |-> None, filename |-> 0]

\* What DELETE FROM posts leaves of a row: nothing but its spent id.
DeletedPost == [NoPost EXCEPT !.type = "deleted"]

\* No file part, and an empty title and description.
NoFile == [ext |-> None, mimetype |-> None]
NoBody == [title |-> <<>>, description |-> <<>>]

\* A response: who was served (req.user), the status code and error, what the
\* request carried (post id, token, file part, body) and what the handler did.
NoResp == [handler |-> "none", code |-> 0, error |-> "",
           user |-> None, post |-> 0, token |-> NoToken, file |-> NoFile,
           body |-> NoBody, posts |-> <<>>, author |-> None, dm |-> <<>>,
           login |-> None, secret |-> "", setupSecret |-> "",
           format |-> None, formatVal |-> None,
           count |-> 0, flag |-> FALSE, written |-> {}, uploads |-> {},
           inserted |-> FALSE, upserted |-> FALSE,
           text |-> <<>>, notify |-> <<>>, fileUrl |-> <<>>, avatar |-> <<>>]

NoPrev == [kind |-> "none", client |-> Anon, target |-> None,
           likes |-> <<>>, watchlist |-> <<>>, follows |-> <<>>,
           pair |-> FALSE, base |-> <<>>]

\* A handler in flight: which route, whose request, on which post, where it
\* stands, what it has read, and whether another request was in flight when it
\* started.
Slots == 1..MaxInflight
NoRequest == [op |-> "none", client |-> Anon, post |-> 0, pc |-> "idle",
              has |-> FALSE, before |-> FALSE, overlap |-> FALSE,
              code |-> 0, flag |-> FALSE, after |-> FALSE]

BootDb(st, db) ==
    /\ users = [d \in Discord |-> NoUser]
    /\ cookie = [c \in Clients |-> NoCookie]
    /\ posts = [p \in PostIds |-> NoPost]
    /\ likes = [k \in PostIds \X UserIds |-> 0]
    /\ watchlist = [k \in PostIds \X UserIds |-> 0]
    /\ follows = [k \in UserIds \X Discord |-> 0]
    /\ comments = [k \in PostIds \X UserIds |-> 0]
    /\ history = [k \in PostIds \X UserIds |-> 0]
    /\ dbType = db
    /\ pending = [s \in Slots |-> NoRequest]
    /\ disk = {}
    /\ nextFile = 1
    /\ storageType = st
    /\ resp = NoResp
    /\ prev = NoPrev

\* With DATABASE_URL the server runs on Postgres.
Boot(st) == BootDb(st, "postgres")

\* Without CLOUDINARY_CLOUD_NAME the server stores uploads on its own disk.
Init == Boot("local")

\* Either database back end.
InitDb == \E db \in {"postgres", "sqlite"} : BootDb("local", db)

\* Either storage back end.
InitStorage == \E st \in {"local", "cloudinary"} : Boot(st)

\* ------------------------------------------------------------- upload rules
ALLOWED_EXTENSIONS == {".jpg", ".jpeg", ".png", ".webp", ".mp4", ".webm"}
ALLOWED_MIME == {"image/jpeg", "image/png", "image/webp", "video/mp4", "video/webm"}

\* A file part is the extension of its original name (as written, before any
\* lower-casing) and its Content-Type.

\* path.extname(file.originalname).toLowerCase()
ToLowerCase(e) == IF e = ".PNG" THEN ".png" ELSE e

\* mimetype.startsWith('image/'), mimetype.startsWith('video/')
StartsWithImage(m) == m \in {"image/jpeg", "image/png", "image/webp", "image/gif"}
StartsWithVideo(m) == m \in {"video/mp4", "video/webm"}

\* A filter that looks at the extension alone.
extensionFilter(f) == ToLowerCase(f.ext) \in ALLOWED_EXTENSIONS

\* upload's fileFilter (fields file and thumbnail)
fileFilter(f) ==
    ToLowerCase(f.ext) \in ALLOWED_EXTENSIONS /\ f.mimetype \in ALLOWED_MIME

\* avatarUpload's fileFilter (field avatar)
avatarFilter(f) == StartsWithImage(f.mimetype)

detectType(m) ==
    IF StartsWithImage(m) THEN "image"
    ELSE IF StartsWithVideo(m) THEN "video" ELSE "unknown"

\* ------------------------------------------------------------ database.js
RECURSIVE SumRows(_, _)
SumRows(T, K) ==
    IF K = {} THEN 0
    ELSE LET k == CHOOSE x \in K : TRUE IN T[k] + SumRows(T, K \ {k})

NumUsers(U) == Cardinality({d \in Discord : U[d].id # 0})

\* INSERT ... ON CONFLICT (discordId) DO UPDATE SET username, avatar, lastSeenAt
upsertUser(U, d) ==
    IF U[d].id # 0 THEN U
    ELSE [U EXCEPT ![d] = [id |-> NumUsers(U) + 1, isAdmin |-> FALSE, isBanned |-> FALSE,
                           avatar |-> <<>>]]

\* The avatar column as upsertUser's DO UPDATE SET avatar = EXCLUDED.avatar and
\* updateUserProfile's avatar = COALESCE(?, avatar) write it; <<>> is null.
setAvatar(U, d, avatar) == IF U[d].id = 0 THEN U ELSE [U EXCEPT ![d].avatar = avatar]

updateUserProfile(U, d, avatar) == IF avatar = <<>> THEN U ELSE setAvatar(U, d, avatar)

\* A setAdmin whose UPDATE matches no row.
setAdminNever(U, d, admin) == U

\* UPDATE users SET isAdmin = ? WHERE discordId = ?
setAdmin(U, d, admin) == IF U[d].id = 0 THEN U ELSE [U EXCEPT ![d].isAdmin = admin]

\* UPDATE users SET isBanned = ? WHERE discordId = ?
setBanned(U, d, banned) == IF U[d].id = 0 THEN U ELSE [U EXCEPT ![d].isBanned = banned]

\* A lookup whose SELECT leaves isBanned out.
getUserWithoutBan(U, d) ==
    IF U[d].id = 0 THEN NoCookie
    ELSE [id |-> U[d].id, discordId |-> d, isAdmin |-> U[d].isAdmin, isBanned |-> FALSE,
          avatar |-> U[d].avatar]

\* SELECT id, discordId, ..., isAdmin, isBanned FROM users WHERE discordId = ?
getUserByDiscordId(U, d) ==
    IF U[d].id = 0 THEN NoCookie
    ELSE [id |-> U[d].id, discordId |-> d, isAdmin |-> U[d].isAdmin, isBanned |-> U[d].isBanned,
          avatar |-> U[d].avatar]

\* The ids the posts sequence has handed out: the rows of the table and the
\* ids of deleted rows, which the sequence does not hand out again.
NumPosts(P) == Cardinality({p \in PostIds : P[p].type # None})

\* INSERT INTO posts (filename, type, title, description, uploaderDiscordId,
\* uploaderName, status, editToken, createdAt): format is not among the
\* columns written, so the row takes the column's DEFAULT 'long'.
insertPost(P, data) ==
    [P EXCEPT ![NumPosts(P) + 1] =
        [status |-> data.status, uploaderDiscordId |-> data.uploaderDiscordId,
         uploaderName |-> data.uploaderName, editToken |-> data.editToken,
         title |-> data.title, description |-> data.description,
         type |-> data.type, format |-> "long", filename |-> data.filename]]

\* An edit that takes the post back to a draft.
unpublishPost(P, id, title, description) ==
    IF P[id].status = "none" THEN P
    ELSE [P EXCEPT ![id].title = title, ![id].description = description,
                   ![id].status = "draft"]

\* A publishPost that spends the edit token as it publishes.
publishPostOnce(P, id, title, description) ==
    IF P[id].status = "none" THEN P
    ELSE [P EXCEPT ![id].title = title, ![id].description = description,
                   ![id].status = "published", ![id].editToken = NoToken]

\* UPDATE posts SET title, description, status = 'published' WHERE id = ?
publishPost(P, id, title, description) ==
    IF P[id].status = "none" THEN P
    ELSE [P EXCEPT ![id].title = title, ![id].description = description,
                   ![id].status = "published"]

\* SELECT COUNT(*) FROM likes WHERE postId = ?
countLikes(L, p) == SumRows(L, {p} \X UserIds)

\* A plain INSERT into a table without the UNIQUE constraint.
InsertAgain(T, k) == [T EXCEPT ![k] = T[k] + 1]

\* INSERT OR IGNORE / ON CONFLICT DO NOTHING under UNIQUE(a, b)
InsertIgnore(T, k) == IF T[k] > 0 THEN T ELSE [T EXCEPT ![k] = 1]

\* A DELETE whose WHERE matches no row.
DeleteNothing(T, k) == T

\* DELETE FROM t WHERE a = ? AND b = ?
DeleteRows(T, k) == [T EXCEPT ![k] = 0]

\* setLike: the likes table after the call
setLikeRows(L, p, u, like) ==
    IF like THEN InsertIgnore(L, <<p, u>>) ELSE DeleteRows(L, <<p, u>>)

\* A setLike that counts before it writes.
setLikeStale(L, p, u, like) == countLikes(L, p)

\* setLike: the value it returns
setLike(L, p, u, like) == countLikes(setLikeRows(L, p, u, like), p)

hasUserLiked(L, p, u) == L[<<p, u>>] > 0

\* INSERT INTO comments: a plain insert, one more row each time.
insertComment(C, p, u) == [C EXCEPT ![<<p, u>>] = C[<<p, u>>] + 1]

\* DELETE FROM posts WHERE id = ?
deletePost(P, id) == IF P[id].status = "none" THEN P ELSE [P EXCEPT ![id] = DeletedPost]

\* An insert that checks no foreign key.
noForeignKeys(P, U, p, u) == TRUE

\* FOREIGN KEY (postId) REFERENCES posts(id), (userId) REFERENCES users(id):
\* whether an insert of <<p, u>> passes the checks.
foreignKeys(P, U, p, u) ==
    /\ P[p].status # "none"
    /\ \E d \in Discord : U[d].id = u

\* The newest viewedAt in the history table
latest(H) == CHOOSE t \in 0..MaxTime : (\A k \in DOMAIN H : H[k] <= t) /\ (\E k \in DOMAIN H : H[k] = t)

\* recordView: INSERT ... ON CONFLICT (postId, userId) DO UPDATE SET viewedAt
recordView(H, p, u, t) == [H EXCEPT ![<<p, u>>] = t]

\* ON DELETE CASCADE on postId: the rows of a table that belong to the post go
\* with it.
Cascade(T, id) == [k \in DOMAIN T |-> IF k[1] = id THEN 0 ELSE T[k]]

setWatchLaterRows(W, p, u, add) ==
    IF add THEN InsertIgnore(W, <<p, u>>) ELSE DeleteRows(W, <<p, u>>)

setWatchLater(W, p, u, add) == add

hasWatchLater(W, p, u) == W[<<p, u>>] > 0

setFollowRows(F, u, d, follow) ==
    IF follow THEN InsertIgnore(F, <<u, d>>) ELSE DeleteRows(F, <<u, d>>)

setFollow(F, u, d, follow) == follow

hasFollow(F, u, d) == F[<<u, d>>] > 0

\* SELECT COUNT(*) FROM follows WHERE followingDiscordId = ?
followerCount(F, d) == SumRows(F, UserIds \X {d})

\* A feed query without its WHERE p.status = 'published'.
AnyStatus(P) == {p \in PostIds : P[p].status # "none"}

\* The published rows, as the WHERE p.status = 'published' of every feed query.
Published(P) == {p \in PostIds : P[p].status = "published"}

\* ORDER BY p.id DESC
RECURSIVE IdDesc(_)
IdDesc(S) ==
    IF S = {} THEN <<>>
    ELSE LET m == CHOOSE x \in S : \A y \in S : y <= x IN <<m>> \o IdDesc(S \ {m})

\* LEFT JOIN (SELECT postId, COUNT(*) AS count FROM likes GROUP BY postId) lc:
\* a post without likes has no group, and its lc.count is NULL. A count is
\* <<n>>, NULL is the empty tuple.
Null == <<>>
lcCount(L, p) == IF countLikes(L, p) = 0 THEN Null ELSE <<countLikes(L, p)>>

\* Postgres, lc.count DESC NULLS LAST: a sorts strictly before b
DescNullsLast(a, b) == a # Null /\ (b = Null \/ a[1] > b[1])

\* A DESC that puts NULL first, as if NULL were the largest value.
DescNullsFirst(a, b) == b # Null /\ (a = Null \/ a[1] > b[1])

\* SQLite, lc.count DESC: NULL counts as smaller than every value
DescSqlite(a, b) ==
    LET rank(v) == IF v = Null THEN -1 ELSE v[1] IN rank(a) > rank(b)

\* ORDER BY lc.count DESC NULLS LAST, p.createdAt DESC (Postgres): createdAt
\* is the insertion time, which grows with the id.
RECURSIVE TrendingOrder(_, _)
TrendingOrder(S, L) ==
    IF S = {} THEN <<>>
    ELSE LET m == CHOOSE x \in S : \A y \in S \ {x} :
                      \/ DescNullsLast(lcCount(L, x), lcCount(L, y))
                      \/ lcCount(L, x) = lcCount(L, y) /\ y < x
         IN <<m>> \o TrendingOrder(S \ {m}, L)

\* ORDER BY lc.count DESC, p.createdAt DESC (SQLite)
RECURSIVE TrendingOrderSqlite(_, _)
TrendingOrderSqlite(S, L) ==
    IF S = {} THEN <<>>
    ELSE LET m == CHOOSE x \in S : \A y \in S \ {x} :
                      \/ DescSqlite(lcCount(L, x), lcCount(L, y))
                      \/ lcCount(L, x) = lcCount(L, y) /\ y < x
         IN <<m>> \o TrendingOrderSqlite(S \ {m}, L)

\* LIMIT n
Limit(s, n) == SubSeq(s, 1, IF Len(s) < n THEN Len(s) ELSE n)

listPublished(P) == IdDesc(Published(P))

searchPosts(P, q) ==
    Limit(IdDesc({p \in Published(P) :
                    \/ Like(P[p].title, q)
                    \/ Like(P[p].description, q)
                    \/ Like(P[p].uploaderName, q)}), SearchLimit)

listTrending(P, L) == Limit(TrendingOrder(Published(P), L), TrendingLimit)

\* listTrendingStmt of the SQLite back end
listTrendingSqlite(P, L) == Limit(TrendingOrderSqlite(Published(P), L), TrendingLimit)

\* The operations of the object createDatabase returns, per back end, and the
\* db.* operations server.js calls.
dbOperationsPostgres ==
    {"init", "upsertUser", "getUserById", "getUserByDiscordId", "insertPost", "getPost",
     "listPublished", "searchPosts", "listTrending", "listLiked", "listHistory",
     "listWatchlist", "listComments", "insertComment", "publishPost", "setLike",
     "hasUserLiked", "getUserLikes", "recordView", "setWatchLater", "hasWatchLater",
     "setFollow", "hasFollow", "followerCount", "deletePost", "setBanned", "setVerified",
     "setAdmin", "updateUserProfile", "getAllUsers", "getUserProfile"}

dbOperationsSqlite == dbOperationsPostgres \ {"listLiked"}

serverCalls ==
    dbOperationsPostgres \cup
    {"createNotification", "getNotifications", "getUnreadCount", "markNotificationRead",
     "markAllNotificationsRead", "setStaff", "setOwner"}

\* Whether the database object in use has the operation; calling one it has
\* not is a TypeError thrown at the call.
provides(op) ==
    op \in (IF dbType = "postgres" THEN dbOperationsPostgres ELSE dbOperationsSqlite)

\* db.createNotification(userId, type, title, message) as the routes call it:
\* the column of users the first argument was read from, the user it belongs
\* to, and whether a row was stored.
createNotification(column, d) ==
    [column |-> column, user |-> d, stored |-> provides("createNotification")]

\* getUserProfile, Postgres: null for an unknown discordId, else the user
\* with the totals of the published posts and the follower count.
NoProfile == [found |-> FALSE, discordId |-> None, totalVideos |-> 0,
              totalLikes |-> 0, followerCount |-> 0]

profileTotals(U, P, L, F, d) ==
    LET videos == {p \in Published(P) : P[p].uploaderDiscordId = d} IN
    [found |-> TRUE,
     discordId |-> getUserByDiscordId(U, d).discordId,
     totalVideos |-> Cardinality(videos),
     totalLikes |-> SumRows(L, videos \X UserIds),
     followerCount |-> followerCount(F, d)]

getUserProfile(U, P, L, F, d) ==
    IF ~LET user == getUserByDiscordId(U, d) IN user.discordId # None
    THEN NoProfile
    ELSE profileTotals(U, P, L, F, d)

\* getUserProfile, SQLite: `user` is the promise of this.getUserByDiscordId,
\* never awaited and always truthy, so the null branch is never taken and the
\* spread of the promise contributes no field.
getUserProfileSqlite(U, P, L, F, d) ==
    [profileTotals(U, P, L, F, d) EXCEPT !.discordId = None]

\* ------------------------------------------------------------- sessions
\* URLs are sequences of pieces; a multer filename is one piece, the number
\* of the file on disk. The filename column of posts holds
\* upload(storageType, filename) of the multer filename kept in the model.
https == "https://res.cloudinary.com/beardedvibes/"

secure_url(filename) == <<https, filename>>

\* storage.upload(filePath, filename): what it returns
upload(st, filename) ==
    IF st = "cloudinary" THEN secure_url(filename) ELSE <<"/uploads/", filename>>

\* storage.getUrl(filename)
getUrl(st, filename) == IF st = "cloudinary" THEN filename ELSE <<"/uploads/">> \o filename

\* Where the uploaded file can be fetched: at Cloudinary's URL, or through
\* app.use('/uploads', express.static(uploadsDir)).
servedAt(st, filename) ==
    IF st = "cloudinary" THEN secure_url(filename) ELSE <<"/uploads/", filename>>

\* resolveAssetUrl(value): null stays null, an http(s) URL stays as it is,
\* anything else goes through storage.getUrl.
resolveAssetUrl(value) ==
    IF value = <<>> THEN <<>>
    ELSE IF value[1] = https THEN value
    ELSE getUrl(storageType, value)

\* jwt.sign({ id, discordId, username, avatar, isAdmin, isBanned })
signSession(user) ==
    [id |-> user.id, discordId |-> user.discordId,
     isAdmin |-> user.isAdmin, isBanned |-> user.isBanned,
     avatar |-> resolveAssetUrl(user.avatar)]

\* undefined when the token carries no discordId
normalizeUser(user) == IF user.discordId = None THEN NoCookie ELSE signSession(user)

\* authOptional: the user the cookie's own payload describes. The users table
\* is read only for a payload without discordId, which signSession never makes.
reqUser(c) == normalizeUser(cookie[c])

LoggedIn(u) == u.discordId # None

\* authOptional's ban check, on the flag inside the cookie
authBanned(c) == LoggedIn(reqUser(c)) /\ reqUser(c).isBanned

Request(h, c) == [NoResp EXCEPT !.handler = h, !.user = reqUser(c).discordId]

Error(h, c, code, msg) == [Request(h, c) EXCEPT !.code = code, !.error = msg]

\* Any request that carries a cookie whose payload says isBanned: the
\* middleware clears the cookie and answers 403 before any route runs.
AuthOptionalBanned(c) ==
    /\ authBanned(c)
    /\ cookie' = [cookie EXCEPT ![c] = NoCookie]
    /\ resp' = [NoResp EXCEPT !.handler = "authOptional", !.code = 403,
                              !.error = "Your account has been banned"]
    /\ prev' = NoPrev
    /\ UNCHANGED <<store, files, dbType, pending>>

\* GET /api/auth/callback and GET /api/auth/google/callback, once the provider
\* has vouched for identity d.
AuthCallback(d) ==
    LET \* the provider's profile carries no picture
        U1 == setAvatar(upsertUser(users, d), d, <<>>)
        U2 == IF d \in adminIds THEN setAdmin(U1, d, TRUE) ELSE U1
        updatedUser == getUserByDiscordId(U2, d)
    IN  /\ ~authBanned(d)
        /\ users' = U2
        /\ IF updatedUser.isBanned
           THEN /\ resp' = [Error("authCallback", d, 403, "banned") EXCEPT !.login = d]
                /\ UNCHANGED cookie
           ELSE /\ cookie' = [cookie EXCEPT ![d] = signSession(updatedUser)]
                /\ resp' = [Request("authCallback", d) EXCEPT !.code = 302, !.login = d]
        /\ prev' = NoPrev
        /\ UNCHANGED <<posts, likes, watchlist, follows, comments, history, files, dbType, pending>>

\* GET /api/auth/me: re-signs the session from the users row
AuthMe(c) ==
    LET fresh == getUserByDiscordId(users, reqUser(c).discordId) IN
    /\ ~authBanned(c)
    /\ IF ~LoggedIn(reqUser(c))
       THEN /\ resp' = Error("authMe", c, 401, "")
            /\ UNCHANGED cookie
       ELSE /\ resp' = [Request("authMe", c) EXCEPT !.code = 200]
            /\ Len(signSession(fresh).avatar) <= MaxUrlLen
            /\ cookie' = IF LoggedIn(fresh) THEN [cookie EXCEPT ![c] = signSession(fresh)]
                         ELSE cookie
    /\ prev' = NoPrev
    /\ UNCHANGED <<store, files, dbType, pending>>

\* POST /api/admin/user/:discordId/warn; `message` says whether the body
\* carries a message. The warning is filed through db.createNotification
\* outside any try, so where the operation is missing the handler rejects.
AdminWarn(c, d, message, forwards) ==
    LET note == createNotification("id", d) IN
    /\ ~authBanned(c)
    /\ resp' = IF ~LoggedIn(reqUser(c)) \/ ~reqUser(c).isAdmin
               THEN Error("adminWarn", c, 403, "Admin access required")
               ELSE IF ~message
               THEN Error("adminWarn", c, 400, "Message is required")
               ELSE IF ~LoggedIn(getUserByDiscordId(users, d))
               THEN Error("adminWarn", c, 404, "User not found")
               ELSE [Request("adminWarn", c) EXCEPT
                        !.code = IF note.stored THEN 200 ELSE IF forwards THEN 500 ELSE 0,
                        !.error = IF ~note.stored /\ forwards
                                  THEN "Internal server error" ELSE "",
                        !.notify = <<note>>]
    /\ prev' = NoPrev
    /\ UNCHANGED <<store, cookie, files, dbType, pending>>

\* GET /api/notifications: db.getNotifications(req.user.id) and
\* db.getUnreadCount(req.user.id), both outside any try.
GetNotifications(c, forwards) ==
    /\ ~authBanned(c)
    /\ resp' = IF ~LoggedIn(reqUser(c))
               THEN Error("notifications", c, 401, "Login required")
               ELSE IF provides("getNotifications") /\ provides("getUnreadCount")
               THEN [Request("notifications", c) EXCEPT !.code = 200]
               ELSE IF forwards
               THEN Error("notifications", c, 500, "Internal server error")
               ELSE Request("notifications", c)
    /\ prev' = NoPrev
    /\ UNCHANGED <<store, cookie, files, dbType, pending>>

\* GET /api/user/:discordId/profile: 404 when db.getUserProfile returns null,
\* else the profile (count: its followerCount).
GetUserProfile(c, d) ==
    LET profile == IF dbType = "postgres"
                   THEN getUserProfile(users, posts, likes, follows, d)
                   ELSE getUserProfileSqlite(users, posts, likes, follows, d)
        req == [Request("userProfile", c) EXCEPT !.author = d]
    IN
    /\ ~authBanned(c)
    /\ resp' = IF ~profile.found
               THEN [req EXCEPT !.code = 404, !.error = "User not found"]
               ELSE [req EXCEPT !.code = 200, !.login = profile.discordId,
                                !.count = profile.followerCount]
    /\ prev' = NoPrev
    /\ UNCHANGED <<store, cookie, files, dbType, pending>>

\* POST /api/admin/user/:discordId/ban
AdminBan(c, d, banned) ==
    /\ ~authBanned(c)
    /\ IF ~LoggedIn(reqUser(c)) \/ ~reqUser(c).isAdmin
       THEN /\ resp' = Error("adminBan", c, 403, "Admin access required")
            /\ UNCHANGED users
       ELSE /\ users' = setBanned(users, d, banned)
            /\ resp' = [Request("adminBan", c) EXCEPT !.code = 200]
    /\ prev' = NoPrev
    /\ UNCHANGED <<cookie, posts, likes, watchlist, follows, comments, history, files, dbType, pending>>

\* POST /api/admin/user/:discordId/admin
AdminSetAdmin(c, d, admin) ==
    /\ ~authBanned(c)
    /\ IF ~LoggedIn(reqUser(c)) \/ ~reqUser(c).isAdmin
       THEN /\ resp' = Error("adminSetAdmin", c, 403, "Admin access required")
            /\ UNCHANGED users
       ELSE /\ users' = setAdmin(users, d, admin)
            /\ resp' = [Request("adminSetAdmin", c) EXCEPT !.code = 200]
    /\ prev' = NoPrev
    /\ UNCHANGED <<cookie, posts, likes, watchlist, follows, comments, history, files, dbType, pending>>

\* A check that is content with any secret at all.
secretPresent(secret, setupSecret) == secret # ""

\* !(!secret || secret !== setupSecret); the empty string is a missing secret
secretMatches(secret, setupSecret) == secret # "" /\ secret = setupSecret

\* POST /api/setup/promote-admin. setupSecret is process.env.SETUP_SECRET as
\* the handler reads it for this request ("" when unset); secret and discordId
\* are the body's fields ("" and None when missing).
PromoteAdmin(c, setupSecret, secret, discordId) ==
    LET req == [Request("promoteAdmin", c) EXCEPT
                  !.secret = secret, !.setupSecret = setupSecret, !.login = discordId]
    IN
    /\ ~authBanned(c)
    /\ IF setupSecret = ""
       THEN /\ resp' = [req EXCEPT !.code = 400, !.error = "Admin setup not available"]
            /\ UNCHANGED users
       ELSE IF ~secretMatches(secret, setupSecret)
       THEN /\ resp' = [req EXCEPT !.code = 403, !.error = "Invalid setup secret"]
            /\ UNCHANGED users
       ELSE IF discordId = None
       THEN /\ resp' = [req EXCEPT !.code = 400, !.error = "Discord ID required"]
            /\ UNCHANGED users
       ELSE /\ users' = setAdmin(users, discordId, TRUE)
            /\ resp' = [req EXCEPT !.code = 200]
    /\ prev' = NoPrev
    /\ UNCHANGED <<cookie, posts, likes, watchlist, follows, comments, history, files, dbType, pending>>

\* ------------------------------------------------------------- storage.js
\* storage.upload throws only when it talks to Cloudinary.
storageThrows(fail, which) == storageType = "cloudinary" /\ fail = which

\* What storage.upload leaves of the local file it was given: the Cloudinary
\* back end unlinks it after the transfer, the local one keeps it in place.
afterUpload(D, f) == IF storageType = "cloudinary" THEN D \ {f} ELSE D

\* ------------------------------------------------------- POST /api/upload
Failures == {"none", "upsert", "storage", "thumbnail", "insert"}

\* The handler from requireAuth to its response, as the record of what it
\* leaves behind: users, posts, disk, nextFile and the response.
uploadOutcome(c, file, thumb, publish, titleIn, descIn, formatVal, fail) ==
    LET user == reqUser(c)
        nMain == IF file = NoFile THEN 0 ELSE 1
        nThumb == IF thumb = NoFile THEN 0 ELSE 1
        mainId == nextFile
        thumbId == nextFile + nMain
        written == (IF file = NoFile THEN {} ELSE {mainId})
                   \cup (IF thumb = NoFile THEN {} ELSE {thumbId})
        keep == [users |-> users, posts |-> posts, disk |-> disk, nextFile |-> nextFile,
                 resp |-> [Request("upload", c) EXCEPT !.file = file,
                                                       !.formatVal = formatVal]]
        wrote == [keep EXCEPT !.nextFile = nextFile + nMain + nThumb,
                              !.resp.written = written]
        type == detectType(file.mimetype)
        format == IF type = "image" THEN "photo"
                  ELSE IF formatVal \in {"short", "long"} THEN formatVal ELSE "long"
        title == Slice(Trim(titleIn), TitleMax)
        description == Slice(Trim(descIn), DescriptionMax)
        U1 == IF fail = "upsert" THEN users
              ELSE setAvatar(upsertUser(users, user.discordId), user.discordId, user.avatar)
        data == [filename |-> mainId, type |-> type, title |-> title,
                 description |-> description, uploaderDiscordId |-> user.discordId,
                 uploaderName |-> UserName(user.discordId),
                 status |-> IF publish THEN "published" ELSE "draft",
                 editToken |-> randomBytes(posts), format |-> format,
                 thumbnail |-> IF thumb = NoFile THEN 0 ELSE thumbId]
        upserted == [wrote EXCEPT !.users = U1, !.resp.upserted = (fail # "upsert")]
        D0 == disk \cup written
        D1 == afterUpload(D0, mainId)
        D2 == IF thumb = NoFile THEN D1 ELSE afterUpload(D1, thumbId)
    IN
    IF ~LoggedIn(user)
    THEN [keep EXCEPT !.resp.code = 401, !.resp.error = "Login required"]
    ELSE IF (file # NoFile /\ ~fileFilter(file)) \/ (thumb # NoFile /\ ~fileFilter(thumb))
    THEN \* multer removes what it had written before the rejected part
         [keep EXCEPT !.resp.code = 400, !.resp.error = "Unsupported file type"]
    ELSE IF file = NoFile
    THEN [wrote EXCEPT !.disk = D0, !.resp.code = 400, !.resp.error = "File is required"]
    ELSE IF type = "unknown"
    THEN [wrote EXCEPT !.resp.code = 400, !.resp.error = "Unsupported file type"]
    ELSE IF thumb # NoFile /\ detectType(thumb.mimetype) # "image"
    THEN [wrote EXCEPT !.resp.code = 400, !.resp.error = "Thumbnail must be an image"]
    ELSE IF storageThrows(fail, "storage")
    THEN [upserted EXCEPT !.disk = D0, !.resp.uploads = {file},
                          !.resp.code = 500, !.resp.error = "Failed to save file"]
    ELSE IF thumb # NoFile /\ storageThrows(fail, "thumbnail")
    THEN [upserted EXCEPT !.disk = D1, !.resp.uploads = {file, thumb},
                          !.resp.code = 500, !.resp.error = "Failed to save file"]
    ELSE IF fail = "insert"
    THEN [upserted EXCEPT !.disk = D2, !.resp.uploads = {file, thumb} \ {NoFile},
                          !.resp.code = 500, !.resp.error = "Failed to save file"]
    ELSE [upserted EXCEPT !.disk = D2, !.resp.uploads = {file, thumb} \ {NoFile},
                          !.posts = insertPost(posts, data),
                          !.resp.inserted = TRUE, !.resp.post = NumPosts(posts) + 1,
                          !.resp.format = format,
                          !.resp.fileUrl = getUrl(storageType, upload(storageType, mainId)),
                          !.resp.code = 201]

Upload(c, file, thumb, publish, titleIn, descIn, formatVal, fail, cap) ==
    \E o \in {uploadOutcome(c, file, thumb, publish, titleIn, descIn, formatVal, fail)} :
    /\ ~authBanned(c)
    /\ o.nextFile <= MaxFiles + 1
    /\ o.resp.inserted => NumPosts(posts) < cap
    /\ \A d \in Discord : Len(o.users[d].avatar) <= MaxUrlLen
    /\ users' = o.users
    /\ posts' = o.posts
    /\ disk' = o.disk
    /\ nextFile' = o.nextFile
    /\ resp' = o.resp
    /\ prev' = NoPrev
    /\ UNCHANGED <<cookie, likes, watchlist, follows, comments, history, storageType, dbType, pending>>

\* ------------------------------------------------------- the Discord bot
\* isAllowedAttachment: extension of the attachment's name, lower-cased, and
\* its content type
isAllowedAttachment(att) ==
    ToLowerCase(att.ext) \in ALLOWED_EXTENSIONS /\ att.mimetype \in ALLOWED_MIME

\* The MessageCreate handler for a message with one attachment. The bot's
\* fetch carries the multipart form and no cookie, so the server sees the
\* request of a visitor who is not logged in; uploaderDiscordId and
\* uploaderDiscordName are form fields the server's handler never reads.
\* On a 2xx the bot DMs the author the edit link (post id, editToken); on
\* anything else sendToBackend throws and the bot replies in the channel.
BotMessage(author, authorIsBot, inTarget, att, fail) ==
    LET o == uploadOutcome(Anon, att, NoFile, FALSE, <<>>, <<>>, "absent", fail)
        ok == o.resp.code \in 200..299
        said == [NoResp EXCEPT !.handler = "bot", !.author = author, !.file = att]
    IN
    /\ IF authorIsBot \/ ~inTarget \/ ~isAllowedAttachment(att)
       THEN /\ resp' = [said EXCEPT !.error = "ignored"]
            /\ UNCHANGED <<users, posts, disk, nextFile>>
       ELSE /\ o.nextFile <= MaxFiles + 1
            /\ o.resp.inserted => NumPosts(posts) < MaxPosts
            /\ users' = o.users
            /\ posts' = o.posts
            /\ disk' = o.disk
            /\ nextFile' = o.nextFile
            /\ resp' = [said EXCEPT
                          !.code = o.resp.code,
                          !.post = o.resp.post,
                          !.inserted = o.resp.inserted,
                          !.dm = IF ok THEN <<o.resp.post, o.posts[o.resp.post].editToken>>
                                 ELSE <<>>,
                          !.error = IF ok THEN ""
                                    ELSE "Sorry, I could not process that attachment."]
    /\ prev' = NoPrev
    /\ UNCHANGED <<cookie, likes, watchlist, follows, comments, history, storageType, dbType, pending>>

\* -------------------------------------------------- PATCH /api/me/profile
PatchProfile(c, fields, avatar, fail) ==
    LET user == reqUser(c)
        avatarUrl == IF avatar = NoFile THEN <<>> ELSE upload(storageType, nextFile)
        U1 == IF LoggedIn(user) THEN updateUserProfile(users, user.discordId, avatarUrl)
              ELSE users
        updated == getUserByDiscordId(U1, user.discordId)
        base == Request("patchProfile", c)
        wrote == IF avatar = NoFile THEN base ELSE [base EXCEPT !.written = {nextFile}]
        handed == IF avatar = NoFile THEN wrote ELSE [wrote EXCEPT !.uploads = {avatar}]
        D0 == IF avatar = NoFile THEN disk ELSE disk \cup {nextFile}
        D1 == IF avatar = NoFile THEN disk ELSE afterUpload(D0, nextFile)
        n == IF avatar = NoFile THEN 0 ELSE 1
    IN
    /\ ~authBanned(c)
    /\ nextFile + n <= MaxFiles + 1
    /\ IF ~LoggedIn(user)
       THEN /\ resp' = [base EXCEPT !.code = 401, !.error = "Login required"]
            /\ UNCHANGED <<users, cookie, disk, nextFile>>
       ELSE IF avatar # NoFile /\ ~avatarFilter(avatar)
       THEN /\ resp' = [base EXCEPT !.code = 400, !.error = "Avatar must be an image"]
            /\ UNCHANGED <<users, cookie, disk, nextFile>>
       ELSE IF avatar # NoFile /\ storageThrows(fail, "storage")
       THEN /\ resp' = [handed EXCEPT !.code = 500, !.error = "Failed to save avatar"]
            /\ disk' = D0
            /\ nextFile' = nextFile + n
            /\ UNCHANGED <<users, cookie>>
       ELSE IF avatar = NoFile /\ ~fields
       THEN /\ resp' = [base EXCEPT !.code = 400, !.error = "Nothing to update"]
            /\ UNCHANGED <<users, cookie, disk, nextFile>>
       ELSE IF fail = "update"
       THEN /\ resp' = [handed EXCEPT !.code = 500, !.error = "Failed to update profile"]
            /\ disk' = D1
            /\ nextFile' = nextFile + n
            /\ UNCHANGED <<users, cookie>>
       ELSE IF ~LoggedIn(updated)
       THEN /\ resp' = [handed EXCEPT !.code = 404, !.error = "User not found"]
            /\ disk' = D1
            /\ nextFile' = nextFile + n
            /\ UNCHANGED <<users, cookie>>
       ELSE /\ resp' = [handed EXCEPT !.code = 200,
                                      !.avatar = resolveAssetUrl(updated.avatar)]
            /\ users' = U1
            /\ cookie' = [cookie EXCEPT ![c] = signSession(updated)]
            /\ disk' = D1
            /\ nextFile' = nextFile + n
    /\ prev' = NoPrev
    /\ UNCHANGED <<posts, likes, watchlist, follows, comments, history,
                   storageType, dbType, pending>>

\* ------------------------------------------------------------------ feeds
ReadOnly == /\ prev' = NoPrev
            /\ UNCHANGED <<store, cookie, files, dbType, pending>>

\* GET /api/posts
ListPosts(c) ==
    /\ ~authBanned(c)
    /\ resp' = [Request("posts", c) EXCEPT !.code = 200, !.posts = listPublished(posts)]
    /\ ReadOnly

\* GET /api/posts while db.listPublished rejects. The handler is an async
\* function with no try/catch, so the promise it returns rejects. Whether the
\* router hands that rejection to next(err), and so to the final error
\* middleware, is a property of the installed express, which the sources do not
\* pin down: where it does the middleware answers 500, where it does not no
\* response is ever written for the request.
ListPostsRejected(c, forwards) ==
    /\ ~authBanned(c)
    /\ resp' = IF forwards THEN Error("posts", c, 500, "Internal server error")
                ELSE Request("posts", c)
    /\ ReadOnly

\* GET /api/posts/search?q=
SearchPosts(c, q) ==
    /\ ~authBanned(c)
    /\ resp' = [Request("search", c) EXCEPT
                  !.code = 200,
                  !.posts = IF q = <<>> \/ Len(Trim(q)) < MinQueryLen THEN <<>>
                            ELSE searchPosts(posts, Trim(q))]
    /\ ReadOnly

\* GET /api/posts/trending
ListTrending(c) ==
    /\ ~authBanned(c)
    /\ resp' = [Request("trending", c) EXCEPT
                  !.code = 200, !.posts = listTrending(posts, likes)]
    /\ ReadOnly

\* GET /api/posts/photos: rows.filter(row => row.format === 'photo')
ListPhotos(c) ==
    /\ ~authBanned(c)
    /\ resp' = [Request("photos", c) EXCEPT
                  !.code = 200,
                  !.posts = SelectSeq(listPublished(posts),
                                      LAMBDA p : posts[p].format = "photo")]
    /\ ReadOnly

\* ---------------------------------------------------- GET /api/post/:id
tokenMatches(token, row) == token # NoToken /\ token = row.editToken

isOwner(user, row) ==
    /\ user.discordId # None
    /\ row.uploaderDiscordId # None
    /\ user.discordId = row.uploaderDiscordId

\* A lookup that also lets administrators see drafts.
canSeeDraftOrAdmin(token, user, row) ==
    tokenMatches(token, row) \/ isOwner(user, row) \/ user.isAdmin

canSeeDraft(token, user, row) == tokenMatches(token, row) \/ isOwner(user, row)

GetPost(c, id, token) ==
    LET row == posts[id]
        req == [Request("getPost", c) EXCEPT !.post = id, !.token = token]
    IN
    /\ ~authBanned(c)
    /\ resp' = IF row.status = "none"
               THEN [req EXCEPT !.code = 404, !.error = "Not found"]
               ELSE IF row.status # "published" /\ ~canSeeDraft(token, reqUser(c), row)
               THEN [req EXCEPT !.code = 404, !.error = "Not found"]
               ELSE [req EXCEPT !.code = 200,
                                !.count = countLikes(likes, id),
                                !.flag = tokenMatches(token, row)]
    /\ ReadOnly

\* ------------------------------------------------ POST /api/post/:id/edit
\* An edit guard that knows the token only.
canEditByToken(token, user, row) == tokenMatches(token, row)

canEdit(token, user, row) == tokenMatches(token, row) \/ isOwner(user, row)

EditPost(c, id, token, titleIn, descIn) ==
    LET row == posts[id]
        req == [Request("edit", c) EXCEPT
                  !.post = id, !.token = token,
                  !.body = [title |-> titleIn, description |-> descIn]]
        \* the request before this one was the same browser's edit of the same
        \* post with the same token, and it succeeded
        again == /\ prev.kind = "edit" /\ prev.client = c /\ prev.target = <<id, token>>
                 /\ resp.code = 200
    IN
    /\ ~authBanned(c)
    /\ IF row.status = "none"
       THEN /\ resp' = [req EXCEPT !.code = 404, !.error = "Not found"]
            /\ UNCHANGED posts
       ELSE IF ~canEdit(token, reqUser(c), row)
       THEN /\ resp' = [req EXCEPT !.code = 403, !.error = "Invalid token"]
            /\ UNCHANGED posts
       ELSE /\ posts' = publishPost(posts, id, Slice(Trim(titleIn), TitleMax),
                                    Slice(Trim(descIn), DescriptionMax))
            /\ resp' = [req EXCEPT !.code = 200]
    /\ prev' = [NoPrev EXCEPT !.kind = "edit", !.client = c, !.target = <<id, token>>,
                              !.pair = again]
    /\ UNCHANGED <<users, cookie, likes, watchlist, follows, comments, history, files, dbType, pending>>

\* ---------------------------------------------------------------- toggles
\* A guard that lets the owner act on a draft.
notFoundUnlessOwner(user, row) == row.status # "published" /\ ~isOwner(user, row)

\* if (!row || row.status !== 'published') return 404, the guard of like,
\* view, watchlater, comment and the comments list
notFound(user, row) == row.status # "published"

\* What the last two requests were: `pair` says that this request repeats the
\* one before it (same endpoint, same browser, same target, nothing between),
\* and `base` is the relations as the earlier of the two found them.
Toggled(kind, c, target) ==
    LET same == prev.kind = kind /\ prev.client = c /\ prev.target = target IN
    prev' = [kind |-> kind, client |-> c, target |-> target,
             likes |-> likes, watchlist |-> watchlist, follows |-> follows,
             pair |-> same,
             base |-> IF same
                      THEN [likes |-> prev.likes, watchlist |-> prev.watchlist,
                            follows |-> prev.follows]
                      ELSE <<>>]

\* POST /api/post/:id/like
LikePost(c, id) ==
    LET user == reqUser(c)
        row == posts[id]
        req == [Request("like", c) EXCEPT !.post = id]
        alreadyLiked == hasUserLiked(likes, id, user.id)
    IN
    /\ ~authBanned(c)
    /\ IF ~LoggedIn(user)
       THEN /\ resp' = [req EXCEPT !.code = 401, !.error = "Login required"]
            /\ UNCHANGED likes
       ELSE IF notFound(user, row)
       THEN /\ resp' = [req EXCEPT !.code = 404, !.error = "Not found"]
            /\ UNCHANGED likes
       ELSE /\ likes' = setLikeRows(likes, id, user.id, ~alreadyLiked)
            /\ resp' = [req EXCEPT !.code = 200,
                                   !.count = setLike(likes, id, user.id, ~alreadyLiked),
                                   !.flag = ~alreadyLiked,
                                   !.notify = IF /\ ~alreadyLiked
                                                 /\ row.uploaderDiscordId # None
                                                 /\ row.uploaderDiscordId # user.discordId
                                              THEN <<createNotification("discordId",
                                                         row.uploaderDiscordId)>>
                                              ELSE <<>>]
    /\ Toggled("like", c, id)
    /\ UNCHANGED <<users, cookie, posts, watchlist, follows, comments, history, files, dbType, pending>>

\* POST /api/post/:id/watchlater
WatchLater(c, id) ==
    LET user == reqUser(c)
        row == posts[id]
        req == [Request("watchlater", c) EXCEPT !.post = id]
        has == hasWatchLater(watchlist, id, user.id)
    IN
    /\ ~authBanned(c)
    /\ IF ~LoggedIn(user)
       THEN /\ resp' = [req EXCEPT !.code = 401, !.error = "Login required"]
            /\ UNCHANGED watchlist
       ELSE IF notFound(user, row)
       THEN /\ resp' = [req EXCEPT !.code = 404, !.error = "Not found"]
            /\ UNCHANGED watchlist
       ELSE /\ watchlist' = setWatchLaterRows(watchlist, id, user.id, ~has)
            /\ resp' = [req EXCEPT !.code = 200,
                                   !.flag = setWatchLater(watchlist, id, user.id, ~has)]
    /\ Toggled("watchlater", c, id)
    /\ UNCHANGED <<users, cookie, posts, likes, follows, comments, history, files, dbType, pending>>

\* POST /api/user/:discordId/follow; `follow` is the body's follow field:
\* "true", "false", or "absent" when it is no boolean.
FollowFields == {"true", "false", "absent"}

FollowUser(c, target, follow) ==
    LET user == reqUser(c)
        req == Request("follow", c)
        \* the target gets a users row if it has none
        U1 == IF LoggedIn(getUserByDiscordId(users, target)) THEN users
              ELSE upsertUser(users, target)
        current == hasFollow(follows, user.id, target)
        desired == IF follow = "absent" THEN ~current ELSE follow = "true"
        F1 == setFollowRows(follows, user.id, target, desired)
    IN
    /\ ~authBanned(c)
    /\ IF ~LoggedIn(user)
       THEN /\ resp' = [req EXCEPT !.code = 401, !.error = "Login required"]
            /\ UNCHANGED <<users, follows>>
       ELSE IF user.discordId = target
       THEN /\ resp' = [req EXCEPT !.code = 400, !.error = "You can't follow yourself"]
            /\ UNCHANGED <<users, follows>>
       ELSE /\ users' = U1
            /\ follows' = F1
            /\ resp' = [req EXCEPT !.code = 200,
                                   !.flag = setFollow(follows, user.id, target, desired),
                                   !.count = followerCount(F1, target),
                                   !.notify = IF desired /\ ~current
                                              THEN <<createNotification("discordId", target)>>
                                              ELSE <<>>]
    /\ IF follow = "absent" THEN Toggled("follow", c, target) ELSE prev' = NoPrev
    /\ UNCHANGED <<cookie, posts, likes, watchlist, comments, history, files, dbType, pending>>

\* POST /api/post/:id/comment
CommentPost(c, id, text) ==
    LET user == reqUser(c)
        row == posts[id]
        req == [Request("comment", c) EXCEPT !.post = id, !.text = text]
        trimmedText == Slice(Trim(text), CommentMax)
    IN
    /\ ~authBanned(c)
    /\ IF ~LoggedIn(user)
       THEN /\ resp' = [req EXCEPT !.code = 401, !.error = "Login required"]
            /\ UNCHANGED comments
       ELSE IF trimmedText = <<>>
       THEN /\ resp' = [req EXCEPT !.code = 400, !.error = "Comment text is required"]
            /\ UNCHANGED comments
       ELSE IF notFound(user, row)
       THEN /\ resp' = [req EXCEPT !.code = 404, !.error = "Not found"]
            /\ UNCHANGED comments
       ELSE /\ comments[<<id, user.id>>] < MaxComments
            /\ comments' = insertComment(comments, id, user.id)
            /\ resp' = [req EXCEPT !.code = 201]
    /\ prev' = NoPrev
    /\ UNCHANGED <<users, cookie, posts, likes, watchlist, follows, history, files, dbType, pending>>

\* GET /api/post/:id/comments: open to everyone, count = rows listed
ListComments(c, id) ==
    LET row == posts[id]
        req == [Request("comments", c) EXCEPT !.post = id]
    IN
    /\ ~authBanned(c)
    /\ resp' = IF notFound(reqUser(c), row)
               THEN [req EXCEPT !.code = 404, !.error = "Not found"]
               ELSE [req EXCEPT !.code = 200, !.count = SumRows(comments, {id} \X UserIds)]
    /\ ReadOnly

\* POST /api/post/:id/view. `tick` says whether the clock of viewedAt has
\* moved on since the newest row: NOW() of Postgres always has, datetime('now')
\* of SQLite has a resolution of one second and need not.
ViewPost(c, id, tick) ==
    LET user == reqUser(c)
        row == posts[id]
        req == [Request("view", c) EXCEPT !.post = id]
        t == IF latest(history) = 0 \/ tick THEN latest(history) + 1 ELSE latest(history)
    IN
    /\ ~authBanned(c)
    /\ tick \/ dbType = "sqlite"
    /\ IF ~LoggedIn(user)
       THEN /\ resp' = [req EXCEPT !.code = 401, !.error = "Login required"]
            /\ UNCHANGED history
       ELSE IF notFound(user, row)
       THEN /\ resp' = [req EXCEPT !.code = 404, !.error = "Not found"]
            /\ UNCHANGED history
       ELSE /\ t <= MaxTime
            /\ history' = recordView(history, id, user.id, t)
            /\ resp' = [req EXCEPT !.code = 200]
    /\ prev' = NoPrev
    /\ UNCHANGED <<users, cookie, posts, likes, watchlist, follows, comments, files, dbType, pending>>

\* ORDER BY h.viewedAt DESC over the user's rows of published posts: every
\* order of the rows in which viewedAt does not grow; rows with the same
\* viewedAt come in an order SQL leaves open.
listHistory(H, P, u) ==
    LET S == {p \in Published(P) : H[<<p, u>>] > 0}
        n == Cardinality(S)
    IN  {q \in [1..n -> S] :
            /\ \A i, j \in 1..n : i # j => q[i] # q[j]
            /\ \A i, j \in 1..n : i < j => H[<<q[i], u>>] >= H[<<q[j], u>>]}

\* GET /api/posts/history
ListHistory(c, rows) ==
    LET user == reqUser(c) IN
    /\ ~authBanned(c)
    /\ IF ~LoggedIn(user)
       THEN resp' = Error("history", c, 401, "Login required")
       ELSE /\ rows \in listHistory(history, posts, user.id)
            /\ resp' = [Request("history", c) EXCEPT !.code = 200, !.posts = rows]
    /\ ReadOnly

\* ------------------------------------------------ handlers between awaits
\* POST /api/post/:id/like, /view, /watchlater and /comment read the post with
\* db.getPost, then (like, watchlater) read the requester's row, then write.
\* On Postgres every db call is a round trip, and other handlers run between
\* two of them; on SQLite the calls are synchronous and a handler runs from
\* its first await to its response without another handler in between.
InFlight(s) == pending[s].pc \in {"got", "has"}

Idle == \A s \in Slots : ~InFlight(s)

RaceOps == {"like", "view", "watchlater", "comment"}

\* The four tables with a postId and a userId
relations == [like |-> likes, watchlater |-> watchlist, view |-> history,
              comment |-> comments]

\* Whether the user has a row for the post in the route's table
member(R, op, p, u) == R[op][<<p, u>>] > 0

\* requireAuth and db.getPost: the request is answered at once (401, 404) or
\* goes on to its next await.
StartRequest(s, op, c, id) ==
    LET user == reqUser(c)
        row == posts[id]
        req == [Request(op, c) EXCEPT !.post = id]
        start == [NoRequest EXCEPT !.op = op, !.client = c, !.post = id,
                                   !.before = LoggedIn(user) /\ member(relations, op, id, user.id),
                                   !.overlap = ~Idle]
        answer(code, msg) ==
            /\ resp' = [req EXCEPT !.code = code, !.error = msg]
            /\ pending' = [pending EXCEPT ![s] = [start EXCEPT !.pc = "done", !.code = code,
                                                               !.after = start.before]]
    IN
    /\ pending[s].pc = "idle"
    /\ dbType = "postgres" \/ Idle
    /\ ~authBanned(c)
    /\ IF ~LoggedIn(user) THEN answer(401, "Login required")
       ELSE IF notFound(user, row) THEN answer(404, "Not found")
       ELSE /\ pending' = [pending EXCEPT ![s] = [start EXCEPT !.pc = "got"]]
            /\ UNCHANGED resp
    /\ prev' = NoPrev
    /\ UNCHANGED <<store, cookie, files, dbType>>

\* db.hasUserLiked / db.hasWatchLater
ReadMember(s) ==
    LET r == pending[s]
        user == reqUser(r.client)
    IN
    /\ r.pc = "got"
    /\ r.op \in {"like", "watchlater"}
    /\ pending' = [pending EXCEPT ![s].pc = "has",
                                  ![s].has = member(relations, r.op, r.post, user.id)]
    /\ UNCHANGED <<store, cookie, files, dbType, resp, prev>>

\* db.setLike / db.setWatchLater / db.recordView / db.insertComment and the
\* response. An insert for a post that was deleted in the meantime fails its
\* foreign key check, and the handler, which has no try/catch, rejects.
WriteRequest(s, tick, forwards) ==
    LET r == pending[s]
        user == reqUser(r.client)
        k == <<r.post, user.id>>
        desired == IF r.op \in {"like", "watchlater"} THEN ~r.has ELSE TRUE
        t == IF latest(history) = 0 \/ tick THEN latest(history) + 1 ELSE latest(history)
        req == [Request(r.op, r.client) EXCEPT !.post = r.post]
        done(code, msg, flag) ==
            /\ resp' = [req EXCEPT !.code = code, !.error = msg, !.flag = flag]
            /\ pending' = [pending EXCEPT ![s].pc = "done", ![s].code = code,
                                          ![s].flag = flag,
                                          ![s].after = member(relations', r.op, r.post, user.id)]
    IN
    /\ r.pc = IF r.op \in {"like", "watchlater"} THEN "has" ELSE "got"
    \* NOW() of Postgres tells two requests apart, datetime('now') of SQLite
    \* only when a second has passed
    /\ IF r.op = "view" THEN (tick \/ dbType = "sqlite") /\ t <= MaxTime ELSE tick
    /\ r.op = "comment" => comments[k] < MaxComments
    /\ IF desired /\ ~foreignKeys(posts, users, r.post, user.id)
       THEN /\ UNCHANGED <<likes, watchlist, history, comments>>
            /\ IF forwards THEN done(500, "Internal server error", FALSE)
               ELSE done(0, "", FALSE)
       ELSE /\ likes' = IF r.op = "like" THEN setLikeRows(likes, r.post, user.id, desired)
                        ELSE likes
            /\ watchlist' = IF r.op = "watchlater"
                            THEN setWatchLaterRows(watchlist, r.post, user.id, desired)
                            ELSE watchlist
            /\ history' = IF r.op = "view" THEN recordView(history, r.post, user.id, t)
                          ELSE history
            /\ comments' = IF r.op = "comment" THEN insertComment(comments, r.post, user.id)
                           ELSE comments
            /\ done(IF r.op = "comment" THEN 201 ELSE 200, "", desired)
    /\ prev' = NoPrev
    /\ UNCHANGED <<users, posts, follows, cookie, files, dbType>>

\* A check that lets every logged-in requester delete.
canDeleteAny(user, row) == TRUE

\* DELETE /api/post/:id: isOwner || isAdmin, both read from the session
canDelete(user, row) == user.discordId = row.uploaderDiscordId \/ user.isAdmin

\* DELETE /api/post/:id. An administrator who removes another user's post
\* first notifies the uploader, when the uploader has a users row, through
\* db.createNotification, which neither database object defines: the call
\* throws inside the async handler before db.deletePost is reached, and the
\* request ends as a rejected handler does (see ListPostsRejected).
DeletePost(c, id, forwards) ==
    LET user == reqUser(c)
        row == posts[id]
        req == [Request("delete", c) EXCEPT !.post = id]
        owner == user.discordId = row.uploaderDiscordId
        uploader == getUserByDiscordId(users, row.uploaderDiscordId)
    IN
    /\ ~authBanned(c)
    /\ IF ~LoggedIn(user)
       THEN /\ resp' = [req EXCEPT !.code = 401, !.error = "Login required"]
            /\ UNCHANGED <<posts, likes, watchlist, comments, history>>
       ELSE IF row.status = "none"
       THEN /\ resp' = [req EXCEPT !.code = 404, !.error = "Post not found"]
            /\ UNCHANGED <<posts, likes, watchlist, comments, history>>
       ELSE IF ~canDelete(user, row)
       THEN /\ resp' = [req EXCEPT !.code = 403,
                                   !.error = "You can only delete your own posts"]
            /\ UNCHANGED <<posts, likes, watchlist, comments, history>>
       ELSE IF user.isAdmin /\ ~owner /\ LoggedIn(uploader)
       THEN /\ resp' = [req EXCEPT
                           !.code = IF forwards THEN 500 ELSE 0,
                           !.error = IF forwards THEN "Internal server error" ELSE "",
                           !.notify = <<createNotification("id", row.uploaderDiscordId)>>]
            /\ UNCHANGED <<posts, likes, watchlist, comments, history>>
       ELSE /\ posts' = deletePost(posts, id)
            /\ likes' = Cascade(likes, id)
            /\ watchlist' = Cascade(watchlist, id)
            /\ comments' = Cascade(comments, id)
            /\ history' = Cascade(history, id)
            /\ resp' = [req EXCEPT !.code = 200]
    /\ prev' = NoPrev
    /\ UNCHANGED <<users, cookie, follows, files, dbType, pending>>

\* ----------------------------------------------------------------- inputs
Png == [ext |-> ".png", mimetype |-> "image/png"]
Mp4 == [ext |-> ".mp4", mimetype |-> "video/mp4"]

\* Request bodies as typed: title and description of an edit, search queries
EditBodies == {[title |-> <<>>, description |-> <<>>],
               [title |-> <<" ", "b", "b">>, description |-> <<"a", " ">>]}
Queries == {<<>>, <<"b">>, <<"B", "b">>, <<"u", "d1">>, <<" ", "a", " ">>}

\* File parts a client can send: right and wrong extensions and types
SomeParts == {Png, Mp4,
              [ext |-> ".PNG", mimetype |-> "image/png"],
              [ext |-> ".gif", mimetype |-> "image/gif"],
              [ext |-> ".png", mimetype |-> "image/gif"],
              [ext |-> ".gif", mimetype |-> "image/png"]}
SomeThumbs == {NoFile, Png, Mp4}
\* Who sends files: one member and one visitor who never logs in
Uploaders == {"d2", Anon}

\* --------------------------------------------------------- specifications
Login == \E d \in Discord : AuthCallback(d)

LoginUploader == \E d \in Uploaders \cap Discord : AuthCallback(d)

\* Drafts and their visibility: login, upload, the feeds, lookup and edit.
UploadPlain ==
    \E c \in Clients, publish \in BOOLEAN :
        Upload(c, Png, NoFile, publish, <<>>, <<>>, "absent", "none", MaxPosts)

Feeds ==
    \E c \in Clients :
        \/ ListPosts(c)
        \/ ListTrending(c)
        \/ ListPhotos(c)
        \/ \E q \in Queries : SearchPosts(c, q)

Lookup == \E c \in Clients, id \in PostIds, token \in Tokens \cup {NoToken} : GetPost(c, id, token)

Edit ==
    \E c \in Clients, id \in PostIds, token \in Tokens \cup {NoToken}, body \in EditBodies :
        EditPost(c, id, token, body.title, body.description)

Next == Login \/ UploadPlain \/ Feeds \/ Lookup \/ Edit

Spec == Init /\ [][Next]_vars

\* Likes, watch-later and follows, on the posts of one uploader.
UploadVideo ==
    \E publish \in BOOLEAN :
        Upload("d1", Mp4, NoFile, publish, <<>>, <<>>, "short", "none", MaxLikedPosts)

Toggles ==
    \E c \in Clients :
        \/ \E id \in PostIds : LikePost(c, id)
        \/ \E id \in PostIds : WatchLater(c, id)
        \/ \E target \in Discord, follow \in FollowFields : FollowUser(c, target, follow)

NextToggle == Login \/ UploadVideo \/ Toggles

SpecToggle == Init /\ [][NextToggle]_vars

\* The trending feed over liked posts.
UploadLiked ==
    \E c \in Discord, publish \in BOOLEAN :
        Upload(c, Mp4, NoFile, publish, <<>>, <<>>, "short", "none", MaxPosts)

Likes == \E c \in Discord, id \in PostIds : LikePost(c, id)

Trending == \E c \in Clients : ListTrending(c)

NextTrending == Login \/ UploadLiked \/ Likes \/ Trending

SpecTrending == Init /\ [][NextTrending]_vars

\* Removing posts that carry likes and comments.
CommentTexts == {<<" ">>, <<"a", " ">>}

UploadPublished ==
    \E c \in Discord :
        Upload(c, Mp4, NoFile, TRUE, <<>>, <<>>, "short", "none", MaxPosts)

\* The administrator likes, the other user and the anonymous visitor comment.
AdminLikes == \E c \in adminIds, id \in PostIds : LikePost(c, id)

Comments ==
    \E c \in Clients \ adminIds, id \in PostIds, text \in CommentTexts :
        CommentPost(c, id, text)

Deletes ==
    \E c \in Clients, id \in PostIds, forwards \in BOOLEAN : DeletePost(c, id, forwards)

NextDelete == Login \/ UploadPublished \/ AdminLikes \/ Comments \/ Deletes

SpecDelete == Init /\ [][NextDelete]_vars

\* Likes, follows, removals and warnings, and the reading of notifications,
\* on either database.
NextNotify ==
    \/ Login
    \/ UploadPublished
    \/ \E c \in Discord, id \in PostIds : LikePost(c, id)
    \/ \E c \in Discord, target \in Discord : FollowUser(c, target, "absent")
    \/ \E c \in Discord, id \in PostIds, forwards \in BOOLEAN : DeletePost(c, id, forwards)
    \/ \E c \in Clients, d \in Discord, message \in BOOLEAN, forwards \in BOOLEAN :
           AdminWarn(c, d, message, forwards)
    \/ \E c \in Clients, forwards \in BOOLEAN : GetNotifications(c, forwards)

SpecNotify == InitDb /\ [][NextNotify]_vars

\* Drafts, published posts and the per-user relations of one user.
UploadOwn ==
    \E publish \in BOOLEAN :
        Upload("d2", Mp4, NoFile, publish, <<>>, <<>>, "short", "none", MaxPosts)

PublishOwn == \E id \in PostIds : EditPost("d2", id, NoToken, <<"b">>, <<>>)

OnPosts ==
    \E c \in Uploaders, id \in PostIds :
        \/ LikePost(c, id)
        \/ WatchLater(c, id)
        \/ \E text \in CommentTexts : CommentPost(c, id, text)
        \/ ListComments(c, id)
        \/ \E tick \in BOOLEAN : ViewPost(c, id, tick)

Histories ==
    \E c \in Uploaders, rows \in UNION {[1..n -> PostIds] : n \in 0..MaxPosts} :
        ListHistory(c, rows)

Views == \E c \in Uploaders, id \in PostIds, tick \in BOOLEAN : ViewPost(c, id, tick)

OwnDeletes == \E id \in PostIds : DeletePost("d2", id, TRUE)

NextDraft == LoginUploader \/ UploadOwn \/ PublishOwn \/ OnPosts \/ OwnDeletes

SpecDraft == Init /\ [][NextDraft]_vars

\* The history of one user's views, on either back end.
NextHistory ==
    \/ LoginUploader
    \/ UploadOwn
    \/ PublishOwn
    \/ Views
    \/ Histories
    \/ OwnDeletes
    \/ \E c \in Uploaders, d \in Discord : GetUserProfile(c, d)

SpecHistory == InitDb /\ [][NextHistory]_vars

\* Handlers that overlap each other and the removal of the post they are about.
NextRace ==
    \/ LoginUploader
    \/ UploadPublished
    \/ \E s \in Slots, op \in RaceOps, c \in Uploaders, id \in PostIds :
           StartRequest(s, op, c, id)
    \/ \E s \in Slots : ReadMember(s)
    \/ \E s \in Slots, tick \in BOOLEAN, forwards \in BOOLEAN :
           WriteRequest(s, tick, forwards)
    \/ \E c \in Uploaders, id \in PostIds :
           (dbType = "postgres" \/ Idle) /\ DeletePost(c, id, TRUE)

SpecRace == InitDb /\ [][NextRace]_vars

\* Bans and sessions.
Moderation ==
    \E c \in Clients, d \in Discord, value \in BOOLEAN :
        AdminBan(c, d, value) \/ AdminSetAdmin(c, d, value)

\* SETUP_SECRET of the environment and the secrets a request can carry
Secrets == {"", "s1", "s2"}

Setup ==
    \E c \in {"d2", Anon}, setupSecret \in {"", "s1"}, secret \in Secrets,
       discordId \in {"d2", None} :
        PromoteAdmin(c, setupSecret, secret, discordId)

Sessions == \E c \in Clients : AuthMe(c) \/ AuthOptionalBanned(c) \/ ListPosts(c)

NextBan == Login \/ Moderation \/ Setup \/ Sessions

SpecBan == Init /\ [][NextBan]_vars

\* Uploads: right and wrong file parts, and every failure of the
\* collaborators (database, Cloudinary), on either storage back end.
UploadAny ==
    \E c \in Uploaders, file \in SomeParts \cup {NoFile}, thumb \in SomeThumbs,
       fail \in Failures :
        Upload(c, file, thumb, FALSE, <<>>, <<>>, "absent", fail, MaxPosts)

Profile ==
    \E c \in Uploaders, fields \in BOOLEAN, avatar \in SomeParts \cup {NoFile},
       fail \in {"none", "storage", "update"} :
        PatchProfile(c, fields, avatar, fail)

\* The bot beside the site: channel messages, logins, uploads and lookups.
BotMessages ==
    \E author \in Discord, authorIsBot \in BOOLEAN, inTarget \in BOOLEAN,
       att \in SomeParts, fail \in {"none", "insert"} :
        BotMessage(author, authorIsBot, inTarget, att, fail)

NextBot == Login \/ BotMessages \/ UploadPlain \/ Lookup

SpecBot == Init /\ [][NextBot]_vars

\* Feed requests that meet a failing database.
Rejections ==
    \E c \in Uploaders, forwards \in BOOLEAN : ListPostsRejected(c, forwards)

NextUpload == LoginUploader \/ UploadAny \/ Profile \/ Rejections

SpecUpload == InitStorage /\ [][NextUpload]_vars

\* Edits with empty bodies and with bodies longer than the columns' caps, by
\* the owner, by another user and by visitors with and without the token.
LongBodies ==
    {[title |-> <<>>, description |-> <<>>],
     [title |-> <<" ">> \o [i \in 1..(TitleMax + 1) |-> "x"],
      description |-> [i \in 1..(DescriptionMax + 1) |-> "y"] \o <<" ">>]}

NextEdit ==
    \/ Login
    \/ UploadOwn
    \/ \E c \in Clients, id \in PostIds, token \in Tokens \cup {NoToken},
          body \in LongBodies :
           EditPost(c, id, token, body.title, body.description)

SpecEdit == Init /\ [][NextEdit]_vars

\* One user's avatar through profile updates, uploads and session refreshes,
\* on either storage.
NextAvatar ==
    \/ LoginUploader
    \/ UploadOwn
    \/ \E c \in Uploaders, fields \in BOOLEAN, avatar \in {NoFile, Png} :
           PatchProfile(c, fields, avatar, "none")
    \/ \E c \in Uploaders : AuthMe(c)

SpecAvatar == InitStorage /\ [][NextAvatar]_vars

\* ------------------------------------------------------------- properties
FeedHandlers == {"posts", "search", "trending", "photos"}

Likers(p) == {u \in UserIds : likes[<<p, u>>] > 0}

Followers(d) == {u \in UserIds : follows[<<u, d>>] > 0}

Disallowed(f) == f.ext \notin ALLOWED_EXTENSIONS \/ f.mimetype \notin ALLOWED_MIME

DisallowedAnyCase(f) ==
    ToLowerCase(f.ext) \notin ALLOWED_EXTENSIONS \/ f.mimetype \notin ALLOWED_MIME

\* C1: whoever asks, the responses of GET /api/posts, /api/posts/search,
\* /api/posts/trending and /api/posts/photos list no post that is a draft.
C1_NoDraftInFeeds ==
    resp.handler \in FeedHandlers =>
        \A i \in 1..Len(resp.posts) : posts[resp.posts[i]].status # "draft"

\* C1 happens: a feed answers the owner of a draft with a non-empty list.
C1_Witness ==
    /\ resp.handler \in FeedHandlers
    /\ Len(resp.posts) > 0
    /\ \E p \in PostIds :
          posts[p].status = "draft" /\ posts[p].uploaderDiscordId = resp.user

C3_BannedIsRejected ==
    [][\A d \in Discord :
          users[d].isBanned /\ cookie[d].discordId = d =>
              ~(resp'.user = d /\ resp'.code \in {200, 201, 302})]_vars

\* C4: the likes value the like endpoint returns is the number of distinct
\* users with a like for the post, the request's own write included.
C4_LikeCount ==
    resp.handler = "like" /\ resp.code = 200 =>
        resp.count = Cardinality(Likers(resp.post))

\* C4 happens: a user takes a like back while another user's like stays.
C4_Witness ==
    /\ resp.handler = "like"
    /\ resp.code = 200
    /\ ~resp.flag
    /\ resp.count = 1

\* C5: two successive toggles by the same user on the same target leave the
\* likes, watchlist and follows relations, and with them the like and
\* follower counts, as they were before the first.
C5_DoubleToggle ==
    prev.kind \in {"like", "watchlater", "follow"} /\ prev.pair =>
        /\ likes = prev.base.likes
        /\ watchlist = prev.base.watchlist
        /\ follows = prev.base.follows
        /\ \A p \in PostIds : countLikes(likes, p) = countLikes(prev.base.likes, p)
        /\ \A d \in Discord :
              followerCount(follows, d) = followerCount(prev.base.follows, d)

\* C5 happens: the second of two successful follow toggles has undone the
\* first, which had changed the relation.
C5_Witness ==
    /\ prev.kind = "follow"
    /\ prev.pair
    /\ resp.code = 200
    /\ prev.follows # follows

\* C6: likes, watchlist and follows hold at most one row per pair, setLike /
\* setWatchLater / setFollow applied twice with one desired value give what
\* one application gives, and the counts count each user once.
C6_RelationsAreSets ==
    /\ \A k \in PostIds \X UserIds : likes[k] <= 1 /\ watchlist[k] <= 1
    /\ \A k \in UserIds \X Discord : follows[k] <= 1
    /\ \A p \in PostIds, u \in UserIds, v \in BOOLEAN :
          /\ setLikeRows(setLikeRows(likes, p, u, v), p, u, v) = setLikeRows(likes, p, u, v)
          /\ setWatchLaterRows(setWatchLaterRows(watchlist, p, u, v), p, u, v)
                = setWatchLaterRows(watchlist, p, u, v)
    /\ \A u \in UserIds, d \in Discord, v \in BOOLEAN :
          setFollowRows(setFollowRows(follows, u, d, v), u, d, v)
             = setFollowRows(follows, u, d, v)
    /\ \A p \in PostIds : countLikes(likes, p) = Cardinality(Likers(p))
    /\ \A d \in Discord : followerCount(follows, d) = Cardinality(Followers(d))

\* C6 happens: a follow request that names follow = true has been served and
\* the followed user counts one follower, beside a post two users like and a
\* watch-listed post.
C6_Witness ==
    /\ resp.handler = "follow"
    /\ resp.code = 200
    /\ resp.flag
    /\ prev.kind = "none"
    /\ \E d \in Discord : Cardinality(Followers(d)) = 1 /\ resp.count = 1
    /\ \E p \in PostIds : Cardinality(Likers(p)) = 2
    /\ \E k \in PostIds \X UserIds : watchlist[k] = 1

\* C7, as stated: an upload whose file has an extension or a MIME type outside
\* the allow-lists ends with 400, with no storage.upload, no posts insert and
\* no users upsert.
C7_Original ==
    resp.handler = "upload" /\ resp.file # NoFile /\ Disallowed(resp.file) =>
        /\ resp.code = 400
        /\ resp.uploads = {}
        /\ ~resp.inserted
        /\ ~resp.upserted

\* C7, amended: an upload whose file has a lower-cased extension or a MIME
\* type outside the allow-lists ends with 400 for a logged-in requester and
\* with 401 for one who is not logged in, and makes no storage.upload, no
\* posts insert and no users upsert.
C7_DisallowedRejected ==
    resp.handler = "upload" /\ resp.file # NoFile /\ DisallowedAnyCase(resp.file) =>
        /\ resp.code = IF resp.user = None THEN 401 ELSE 400
        /\ resp.uploads = {}
        /\ ~resp.inserted
        /\ ~resp.upserted

\* C7 happens: a logged-in user's file with an allowed extension and a MIME
\* type that is not allowed is turned down.
C7_Witness ==
    /\ resp.handler = "upload"
    /\ resp.user # None
    /\ resp.file = [ext |-> ".png", mimetype |-> "image/gif"]
    /\ resp.code = 400

\* C8: every file handed to storage.upload, from the fields file, thumbnail
\* and avatar, has an allowed extension and an allowed MIME type.
C8_OnlyAllowedStored ==
    \A f \in resp.uploads : ~DisallowedAnyCase(f)

C10_ErrorsCleanUp ==
    /\ resp.handler = "upload"
    /\ resp.code >= 400
    /\ resp.error \in {"Unsupported file type", "Thumbnail must be an image",
                       "Failed to save file"}
    => resp.written \cap disk = {}

\* C11: for an allowed attachment of a non-bot message in the target channel
\* the bot's upload is accepted (201), a draft attributed to the author is
\* created, and the bot DMs the author the link with the post id and editToken.
C11_BotRelayCreatesDraft ==
    /\ resp.handler = "bot"
    /\ resp.error # "ignored"
    => /\ resp.code = 201
       /\ resp.post \in PostIds
       /\ posts[resp.post].status = "draft"
       /\ posts[resp.post].uploaderDiscordId = resp.author
       /\ resp.dm = <<resp.post, posts[resp.post].editToken>>

\* C12: a login callback for a user whose users row says isBanned answers 403
\* and sets no cookie; the cookie a login issues is that of a user who is not
\* banned at that time.
C12_BannedCannotLogIn ==
    [][resp'.handler = "authCallback" =>
          IF users'[resp'.login].isBanned
          THEN resp'.code = 403 /\ cookie' = cookie
          ELSE /\ resp'.code = 302
               /\ cookie'[resp'.login].discordId = resp'.login
               /\ ~cookie'[resp'.login].isBanned]_vars

\* C12 happens: a banned user whose browser holds no cookie any more tries to
\* log in and is turned away.
C12_Witness ==
    /\ resp.handler = "authCallback"
    /\ resp.code = 403
    /\ users[resp.login].isBanned
    /\ cookie[resp.login] = NoCookie

\* C15: after a successful login of a user listed in ADMIN_IDS the users row
\* says isAdmin and the cookie that login issued carries isAdmin = true.
C15_AdminIdsPromoted ==
    resp.handler = "authCallback" /\ resp.code = 302 /\ resp.login \in adminIds =>
        /\ users[resp.login].isAdmin
        /\ cookie[resp.login].discordId = resp.login
        /\ cookie[resp.login].isAdmin

\* C15 happens: a listed user has logged in while another user is banned.
C15_Witness ==
    /\ resp.handler = "authCallback"
    /\ resp.code = 302
    /\ resp.login \in adminIds
    /\ \E d \in Discord : users[d].isBanned

\* C13: the admin endpoints act only for a logged-in requester whose users
\* row says isAdmin when the request is made; for anyone else, a demoted
\* administrator included, they answer 403 and change no user flag.
C13_AdminByTable ==
    [][(/\ resp'.handler \in {"adminBan", "adminSetAdmin"}
        /\ (resp'.user = None \/ ~users[resp'.user].isAdmin))
       => resp'.code = 403 /\ users' = users]_vars

\* C14: promote-admin sets isAdmin only when SETUP_SECRET is configured and
\* the request's secret equals it; it answers 400 when SETUP_SECRET is unset
\* and 403 when the secret is missing or different, changing no isAdmin flag.
C14_SetupSecretGuards ==
    [][resp'.handler = "promoteAdmin" =>
          /\ resp'.setupSecret = "" => resp'.code = 400 /\ users' = users
          /\ resp'.setupSecret # "" /\ resp'.secret # resp'.setupSecret =>
                resp'.code = 403 /\ users' = users
          /\ (\E d \in Discord : users'[d].isAdmin # users[d].isAdmin) =>
                resp'.setupSecret # "" /\ resp'.secret = resp'.setupSecret]_vars

\* C14 happens: with the right secret a user outside ADMIN_IDS has been made
\* an administrator.
C14_Witness ==
    /\ resp.handler = "promoteAdmin"
    /\ resp.code = 200
    /\ resp.login \notin adminIds
    /\ users[resp.login].isAdmin

C17_StoredFormat ==
    resp.handler = "upload" /\ resp.code = 201 =>
        /\ posts[resp.post].format = resp.format
        /\ resp.format = IF posts[resp.post].type = "image" THEN "photo"
                         ELSE IF resp.formatVal \in {"short", "long"} THEN resp.formatVal
                         ELSE "long"

\* C18: the SQLite and the Postgres object offer the same operations, every
\* operation the server calls among them, and on the same store each call
\* returns the same result.
C18_BackendsAgree ==
    /\ dbOperationsSqlite = dbOperationsPostgres
    /\ serverCalls \subseteq (dbOperationsSqlite \cap dbOperationsPostgres)
    /\ listTrendingSqlite(posts, likes) = listTrending(posts, likes)
    /\ \A d \in Discord :
          getUserProfileSqlite(users, posts, likes, follows, d)
             = getUserProfile(users, posts, likes, follows, d)

\* C19: every request ends with a response, and a request that ends with 500
\* carries the final error middleware's body, error 'Internal server error'.
C19_ErrorsReachMiddleware ==
    resp.handler # "none" =>
        /\ resp.code # 0
        /\ resp.code = 500 => resp.error = "Internal server error"

C21_RowsReferToRows ==
    \A op \in RaceOps : \A k \in PostIds \X UserIds :
        relations[op][k] > 0 => /\ posts[k[1]].status # "none"
                    /\ \E d \in Discord : users[d].id = k[2]

\* C21 happens: a like read the post, the post was removed, and the like's
\* insert was refused.
C21_Witness ==
    \E s \in Slots :
        /\ pending[s].op = "like" /\ pending[s].pc = "done"
        /\ pending[s].code \in {0, 500}
        /\ posts[pending[s].post] = DeletedPost

\* C24: when two like requests of one user on one post overlap and both are
\* answered 200, the user's like is afterwards what it was before the two, and
\* the liked flags of the two responses differ.
C24_LikeToggleAtomic ==
    \A s1, s2 \in Slots :
        LET a == pending[s1]
            b == pending[s2]
        IN  (/\ s1 # s2
             /\ a.op = "like" /\ b.op = "like"
             /\ a.pc = "done" /\ b.pc = "done"
             /\ a.code = 200 /\ b.code = 200
             /\ a.client = b.client /\ a.post = b.post
             /\ ~a.overlap /\ b.overlap
             /\ posts[a.post].status # "none")
            => /\ hasUserLiked(likes, a.post, reqUser(a.client).id) = a.before
               /\ a.flag # b.flag

PostRoutes == {"like", "view", "watchlater", "comment", "comments"}

C23_NoWayBackToDraft ==
    [][/\ \A p \in PostIds : posts[p].status = "published" => posts'[p].status # "draft"
       /\ \A op \in RaceOps : \A k \in PostIds \X UserIds :
             relations[op]'[k] > 0 => posts'[k[1]].status = "published"]_vars

\* C23 happens: a published post that has a like and a view was edited again
\* and is still published, while another post is a draft.
C23_Witness ==
    /\ resp.handler = "edit" /\ resp.code = 200
    /\ posts[resp.post].status = "published"
    /\ countLikes(likes, resp.post) > 0
    /\ \E u \in UserIds : history[<<resp.post, u>>] > 0
    /\ \E p \in PostIds : posts[p].status = "draft"

\* C29: GET /api/posts/history lists each published post the user has viewed
\* exactly once, and a post the user has just viewed comes first.
C29_HistoryNewestFirst ==
    [][resp'.handler = "history" /\ resp'.code = 200 =>
          LET rows == resp'.posts
              u == cookie[resp'.user].id
          IN  /\ \A i, j \in DOMAIN rows : i # j => rows[i] # rows[j]
              /\ {rows[i] : i \in DOMAIN rows}
                    = {p \in Published(posts) : history[<<p, u>>] > 0}
              /\ (resp.handler = "view" /\ resp.code = 200 /\ resp.user = resp'.user)
                    => rows[1] = resp.post]_vars

\* C25: every notification a route creates (like, follow, removal of another
\* user's post by an administrator, warning) is addressed by the recipient's
\* numeric users.id, the key GET /api/notifications reads with, and is
\* stored; and a logged-in user's GET /api/notifications answers 200 with
\* their list.
C25_NotificationsReachRecipient ==
    /\ \A i \in 1..Len(resp.notify) :
          resp.notify[i].column = "id" /\ resp.notify[i].stored
    /\ (resp.handler = "notifications" /\ resp.code # 401) => resp.code = 200

\* C27: GET /api/user/:discordId/profile for a discordId without a users row
\* answers 404 {error: 'User not found'}, on SQLite as on Postgres.
C27_UnknownUserNotFound ==
    (resp.handler = "userProfile" /\ users[resp.author].id = 0)
        => (resp.code = 404 /\ resp.error = "User not found")

\* C26: on both storage back ends the fileUrl of a 201 upload response,
\* storage.getUrl of the value storage.upload returned and the post stores,
\* is the URL under which the uploaded file is served: '/uploads/<filename>'
\* on local storage, the secure_url on Cloudinary.
C26_FileUrlIsServed ==
    (resp.handler = "upload" /\ resp.code = 201)
        => resp.fileUrl = servedAt(storageType, posts[resp.post].filename)

\* C28: for a user on local storage whose avatar was set through the avatar
\* upload, POST /api/upload and GET /api/auth/me leave the avatar in the
\* users table and in the session as they were.
C28_AvatarStays ==
    [][(/\ resp'.handler \in {"upload", "authMe"}
        /\ storageType = "local"
        /\ resp'.user # None
        /\ users[resp'.user].avatar # <<>>)
       => (/\ users'[resp'.user].avatar = users[resp'.user].avatar
           /\ cookie'[resp'.user].avatar = cookie[resp'.user].avatar)]_vars

====
